---------------------------- MODULE Spec2Model ----------------------------
(***************************************************************************)
(* Verification model of the BetterSkin application:                       *)
(*   - the colour-based skin metrics engine (lib/realPixelAnalysis.ts),    *)
(*   - the analyses table (lib/database.ts),                               *)
(*   - the monthly usage limit (lib/storage.ts),                           *)
(*   - the outbound OpenAI requests (lib/openaiService.ts,                 *)
(*     lib/openaiAnalysis.ts).                                             *)
(*                                                                         *)
(* Numbers.  The engine computes in IEEE-754 doubles.  The model computes  *)
(* every quantity as an exact integer multiple of a fixed unit (named at   *)
(* each definition) and rounds with MathRound, which is Math.round on the  *)
(* exact quotient.  Where the double evaluation of a product lands just    *)
(* below an exact .5 tie and the argument set is small, the arguments are  *)
(* listed (TieDown...) and rounded down as the code does.                  *)
(***************************************************************************)
EXTENDS Integers, Sequences, FiniteSets, TLC

VARIABLES
  \* ---- metrics engine (one call of analyzeRealImageEnhanced) ----
  colors,           \* what ImageColors.getColors yields for the image
  faceData,         \* yaw angle of the detected face, or NoYaw
  previousResults,  \* sequence of earlier SkinMetrics, most recent first
  isPremium,        \* premium_status.isPremium in the secure store
  epc,              \* "idle" | "done": position of the engine call
  getColorsOk,      \* whether the two getColors calls resolved
  path,             \* which branch produced the result
  result,           \* the RealAnalysisResult returned
  \* ---- analyses table ----
  analyses,         \* set of rows of table analyses
  lastOp,           \* last DatabaseService operation and its argument
  \* ---- usage limit ----
  freeCount,        \* free_analysis_count
  freeMonth,        \* free_analysis_month (NoMonth = key absent)
  now,              \* current calendar month (UTC), as a month number
  lastCheck,        \* value returned by the last checkCanAnalyze
  recordedMonth,    \* month of the last analysis recorded for a free user
  uop,              \* last StorageService operation
  \* ---- outbound requests ----
  rpc,              \* position of generateEnhancedRoutines
  rargs,            \* its arguments
  elapsed,          \* seconds since its fetch was started
  routcome,         \* how its fetch ended
  rresult,          \* what it returned
  vresult,          \* what analyzeWithOpenAI returned
  photo,            \* bytes of the photo handed to analyzeWithOpenAI
  outbound,         \* requests sent to external services so far
  \* ---- a single function applied to an argument ----
  fn,               \* the function applied, "none" before the call
  arg,              \* its argument
  ret,              \* the value it returned
  \* ---- useFaceAnalysis (the hook of the camera screen) ----
  hpc,              \* position of each call of analyzeImage
  hret,             \* what each call returned
  isAnalyzing,      \* state.isAnalyzing of the hook
  progress,         \* state.progress of the hook
  leftAnalyzing,    \* state.isAnalyzing as each call left it on returning
  savedBy,          \* calls whose result database.saveAnalysis stored
  countedBy,        \* calls that storage.incrementAnalysisCount counted
  \* ---- usage information for the home screen ----
  usageLimit,       \* what the last storage.getUsageLimit returned
  \* ---- IAPService ----
  storedStatus,     \* premium_status in the secure store, as IAPService sees it
  entitlement,      \* the premium entitlement the purchase service reports
  clock,            \* Date.now()
  premiumRet,       \* what the last checkPremiumStatus returned
  \* ---- repeated analyses fed from the result store ----
  stored,           \* metrics of the stored records, most recent first
  analysesRun,      \* number of analyses performed so far
  \* ---- PremiumReportScreen ----
  basicAnalysis,    \* state basicAnalysis: what getAnalysisById returned
  premiumReport,    \* state premiumReport: the report shown, "none" for null
  reportSaved       \* ids re-saved with a generated report attached

engineVars == <<colors, faceData, previousResults, epc, getColorsOk, path, result>>
dbVars     == <<analyses, lastOp>>
usageVars  == <<freeCount, freeMonth, now, lastCheck, recordedMonth, uop>>
netVars    == <<rpc, rargs, elapsed, routcome, rresult, vresult, photo, outbound>>
fnVars     == <<fn, arg, ret>>
\* the state outside the engine, the table, the usage limit and the requests
hookVars   == <<hpc, hret, isAnalyzing, progress, leftAnalyzing, savedBy, countedBy>>
iapVars    == <<storedStatus, entitlement, clock, premiumRet>>
appVars    == <<stored, analysesRun, basicAnalysis, premiumReport, reportSaved>>
restVars   == <<fnVars, hookVars, usageLimit, iapVars, appVars>>
vars       == <<engineVars, isPremium, dbVars, usageVars, netVars, restVars>>

---------------------------------------------------------------------------
(* Arithmetic helpers                                                      *)

Max(a, b) == IF a >= b THEN a ELSE b
Min(a, b) == IF a <= b THEN a ELSE b
Abs(a)    == IF a >= 0 THEN a ELSE 0 - a

\* Math.max(lo, Math.min(hi, x))
Clamp(lo, hi, x) == Max(lo, Min(hi, x))

\* Math.round(n / d) for n >= 0, d > 0: floor(n/d + 1/2)
MathRound(n, d) == (2 * n + d) \div (2 * d)

\* x || 0 for an optional number
Undefined == -1
OrZero(x) == IF x = Undefined THEN 0 ELSE x

---------------------------------------------------------------------------
(* Colour strings.  A string is a sequence of characters; the characters   *)
(* 0..15 are the hexadecimal digits, Hash is '#', and any other value is a *)
(* character that is not a hexadecimal digit.  The empty string stands for *)
(* an absent (falsy) colour.                                               *)

Hash    == 16
NoColor == << >>

Hex(r, g, b) ==
  <<Hash, r \div 16, r % 16, g \div 16, g % 16, b \div 16, b % 16>>

\* hexToRgb with black as the fallback colour
hexToRgbBlackFallback(hex) ==
  LET body == IF Len(hex) > 0 /\ hex[1] = Hash THEN Tail(hex) ELSE hex
  IN  IF Len(body) = 6 /\ \A i \in 1..6 : body[i] \in 0..15
      THEN [r |-> 16 * body[1] + body[2],
            g |-> 16 * body[3] + body[4],
            b |-> 16 * body[5] + body[6]]
      ELSE [r |-> 0, g |-> 0, b |-> 0]

\* /^#?([a-f\d]{2})([a-f\d]{2})([a-f\d]{2})$/i with parseInt(.., 16),
\* and the {r:180,g:140,b:110} fallback when the pattern does not match
hexToRgb(hex) ==
  LET body == IF Len(hex) > 0 /\ hex[1] = Hash THEN Tail(hex) ELSE hex
  IN  IF Len(body) = 6 /\ \A i \in 1..6 : body[i] \in 0..15
      THEN [r |-> 16 * body[1] + body[2],
            g |-> 16 * body[3] + body[4],
            b |-> 16 * body[5] + body[6]]
      ELSE [r |-> 180, g |-> 140, b |-> 110]

\* '#D4A574', '#C89660', '#E6B887'
DefaultDominant == Hex(212, 165, 116)
DefaultAverage  == Hex(200, 150, 96)
DefaultVibrant  == Hex(230, 184, 135)

\* a || b on strings
OrElse(s, dflt) == IF s = NoColor THEN dflt ELSE s

getDominantColor(c) ==
  IF c.platform = "ios" THEN OrElse(c.primary, DefaultDominant)
  ELSE OrElse(c.dominant, DefaultDominant)

getAverageColor(c) ==
  IF c.platform = "ios" THEN OrElse(c.secondary, DefaultAverage)
  ELSE OrElse(c.average, DefaultAverage)

\* colors.vibrant || colors.detail || '#E6B887'
getVibrantColor(c) == OrElse(OrElse(c.vibrant, c.detail), DefaultVibrant)

---------------------------------------------------------------------------
(* Raw metric scoring                                                      *)

Sum3(c)  == c.r + c.g + c.b
Max3(c)  == Max(c.r, Max(c.g, c.b))
Min3(c)  == Min(c.r, Min(c.g, c.b))
\* |d.r - a.r| + |d.g - a.g| + |d.b - a.b|
ChannelDiff(d, a) == Abs(d.r - a.r) + Abs(d.g - a.g) + Abs(d.b - a.b)
\* 0.299 r + 0.587 g + 0.114 b, in units of 1/1000
Lum(c) == 299 * c.r + 587 * c.g + 114 * c.b

\* result in units of 1/600; overallBrightness = (Sum3(d) + Sum3(a)) / 6
calculateOilinessEnhanced(dominant, average) ==
  LET b6   == Sum3(dominant) + Sum3(average)
      base == IF b6 < 300 THEN 15000 + 40 * b6
              ELSE IF b6 > 1080 THEN 36000 + 40 * (b6 - 1080)
              ELSE 15000 + 35 * (b6 - 300)
      saturation == Max3(dominant) - Min3(dominant)
  IN  Clamp(9000, 51000, base + 60 * saturation)

\* denominator of the red ratio of one sample: max((g + b) / 2, 1), doubled
RedDen(c) == Max(c.g + c.b, 2)

\* result as a pair <<numerator, denominator>>;
\* overallRedRatio = n / den with the definitions below
calculateRednessEnhanced(dominant, average) ==
  LET dd  == RedDen(dominant)
      da  == RedDen(average)
      n   == dominant.r * da + average.r * dd
      den == dd * da
      base == IF 10 * n < 9 * den THEN 80 * den + 150 * n
              ELSE IF 10 * n > 14 * den THEN 450 * den + 800 * n - 1120 * den
              ELSE 200 * den + 500 * n - 450 * den
      erythema == 2 * Max(0, dominant.r - dominant.g) * den
  IN  <<Clamp(80 * den, 850 * den, base + erythema), 10 * den>>

\* result in units of 1/10000
calculateTextureEnhanced(dominant, average, vibrant) ==
  LET variation == Abs(Lum(dominant) - Lum(average))
                   + Abs(Lum(average) - Lum(vibrant))
      colorUniformity == ChannelDiff(dominant, average)
  IN  Clamp(100000, 800000, 3 * variation + 2000 * colorUniformity)

\* calculateAcneEnhanced without Math.max(5, Math.min(60, acne))
calculateAcneEnhancedUnclamped(dominant, average) ==
  LET darkness6 == 1530 - (Sum3(dominant) + Sum3(average))
      colorIrregularity == ChannelDiff(dominant, average)
  IN  15 * darkness6 + 48 * colorIrregularity

\* result in units of 1/600; overallDarkness = 255 - (Sum3(d) + Sum3(a)) / 6
calculateAcneEnhanced(dominant, average) ==
  LET darkness6 == 1530 - (Sum3(dominant) + Sum3(average))
      colorIrregularity == ChannelDiff(dominant, average)
  IN  Clamp(3000, 36000, 15 * darkness6 + 48 * colorIrregularity)

\* result in units of 1/4000
calculateWrinklesEnhanced(dominant, vibrant) ==
  LET contrast == ChannelDiff(dominant, vibrant)
      lumVariation == Abs(Lum(dominant) - Lum(vibrant))
  IN  Clamp(32000, 300000, 600 * contrast + lumVariation)

analyzeColorsForSkinMetrics(c) ==
  LET dominantRGB == hexToRgb(getDominantColor(c))
      averageRGB  == hexToRgb(getAverageColor(c))
      vibrantRGB  == hexToRgb(getVibrantColor(c))
      redness     == calculateRednessEnhanced(dominantRGB, averageRGB)
  IN  [oiliness |-> MathRound(calculateOilinessEnhanced(dominantRGB, averageRGB), 600),
       redness  |-> MathRound(redness[1], redness[2]),
       texture  |-> MathRound(calculateTextureEnhanced(dominantRGB, averageRGB, vibrantRGB), 10000),
       acne     |-> MathRound(calculateAcneEnhanced(dominantRGB, averageRGB), 600),
       wrinkles |-> MathRound(calculateWrinklesEnhanced(dominantRGB, vibrantRGB), 4000)]

---------------------------------------------------------------------------
(* Environmental quality and correction.  Factors are in hundredths:       *)
(* Math.round(f * 100) / 100 is the double nearest to k/100, held as k.    *)

\* sums r+g+b below 180 at which the double 0.7 + (brightness/60)*0.3,
\* times 100, evaluates just below the tie k + 0.5
TieDownLighting == {33, 39, 45, 51, 123, 129, 159, 165, 171, 177}

calculateEnvironmentalQuality(c) ==
  LET dominantRGB == hexToRgb(getDominantColor(c))
      averageRGB  == hexToRgb(getAverageColor(c))
      s == Sum3(dominantRGB)     \* brightness = s / 3
      lightingQuality ==
        IF s < 180 THEN (IF s \in TieDownLighting
                         THEN (420 + s) \div 6
                         ELSE MathRound(420 + s, 6))
        ELSE IF s > 540 THEN MathRound(1500 - 2 * (s - 540), 15)
        ELSE 100
      blue == Max(dominantRGB.b, 1)
      colorTemperature ==
        IF 10 * dominantRGB.r > 12 * blue THEN 110
        ELSE IF 10 * dominantRGB.r < 8 * blue THEN 90
        ELSE 100
      contrast == ChannelDiff(dominantRGB, averageRGB)
      contrastFactor == IF contrast > 30 THEN 120
                        ELSE IF contrast < 10 THEN 80 ELSE 100
  IN  [lightingQuality  |-> lightingQuality,
       colorTemperature |-> colorTemperature,
       contrast         |-> contrastFactor]

\* pairs <<metric, factor>> (metric 0..100, factor 70..120) whose double
\* product evaluates just below the tie k + 0.5
TieDownCorrection ==
  {<<25, 114>>, <<45, 70>>, <<50, 113>>, <<50, 115>>,
   <<75, 82>>, <<75, 114>>, <<85, 70>>}

\* Math.round(Math.max(5, Math.min(95, m * factor)))
CorrectOne(m, factor) ==
  LET x == Clamp(500, 9500, m * factor)     \* units of 1/100
  IN  IF <<m, factor>> \in TieDownCorrection THEN x \div 100
      ELSE MathRound(x, 100)

\* applyEnvironmentalCorrections with acne scaled by contrast
applyEnvironmentalCorrectionsAcneByContrast(metrics, envFactors) ==
  [oiliness |-> CorrectOne(metrics.oiliness, envFactors.lightingQuality),
   redness  |-> CorrectOne(metrics.redness, envFactors.colorTemperature),
   texture  |-> CorrectOne(metrics.texture, envFactors.contrast),
   acne     |-> CorrectOne(OrZero(metrics.acne), envFactors.contrast),
   wrinkles |-> CorrectOne(OrZero(metrics.wrinkles), envFactors.contrast)]

applyEnvironmentalCorrections(metrics, envFactors) ==
  [oiliness |-> CorrectOne(metrics.oiliness, envFactors.lightingQuality),
   redness  |-> CorrectOne(metrics.redness, envFactors.colorTemperature),
   texture  |-> CorrectOne(metrics.texture, envFactors.contrast),
   acne     |-> CorrectOne(OrZero(metrics.acne), envFactors.lightingQuality),
   wrinkles |-> CorrectOne(OrZero(metrics.wrinkles), envFactors.contrast)]

---------------------------------------------------------------------------
(* Temporal smoothing                                                      *)

\* the weights of the two previous records exchanged
SmoothWeightExchanged(i) == IF i = 1 THEN 2 ELSE IF i = 2 THEN 3 ELSE 0

\* weights [0.5, 0.3, 0.2] in tenths; weights[index + 1] || 0
SmoothWeight(i) == IF i = 1 THEN 3 ELSE IF i = 2 THEN 2 ELSE 0

\* previousResults.slice(0, 2)
Slice2(prev) == SubSeq(prev, 1, Min(2, Len(prev)))

\* <<current, first previous, second previous>> (0 for an absent second
\* record) at which the double current * 0.5 + first * 0.3 + second * 0.2,
\* summed in this order, evaluates just below the tie k + 0.5; listed for
\* the arguments the specifications reach
SmoothTieDown ==
  {<<0, 31, 1>>, <<2, 57, 2>>, <<6, 9, 9>>, <<6, 23, 18>>, <<8, 23, 13>>,
   <<8, 23, 18>>, <<8, 51, 6>>, <<8, 57, 2>>, <<28, 31, 16>>, <<30, 31, 26>>,
   <<30, 31, 31>>, <<34, 31, 26>>, <<34, 57, 67>>, <<34, 77, 62>>,
   <<34, 77, 72>>, <<34, 87, 52>>, <<34, 87, 57>>, <<34, 97, 72>>,
   <<62, 57, 67>>, <<64, 57, 52>>, <<72, 57, 52>>}

\* one field of the weighted sum, in tenths (one tenth less where the
\* double falls below the tie); acne and wrinkles are read with || 0
SmoothField(currentMetrics, prev, field) ==
  LET p == Slice2(prev)
      optional == field \in {"acne", "wrinkles"}
      read(m) == IF optional THEN OrZero(m[field]) ELSE m[field]
      add[i \in 0..Len(p)] ==
        IF i = 0 THEN 5 * read(currentMetrics)
        ELSE add[i - 1] + SmoothWeight(i) * read(p[i])
      args == <<read(currentMetrics),
                IF Len(p) >= 1 THEN read(p[1]) ELSE 0,
                IF Len(p) >= 2 THEN read(p[2]) ELSE 0>>
  IN  IF Len(p) >= 1 /\ args \in SmoothTieDown
      THEN add[Len(p)] - 1
      ELSE add[Len(p)]

\* applyTemporalSmoothing without its early return
applyTemporalSmoothingAlways(currentMetrics, prev) ==
  [oiliness |-> MathRound(SmoothField(currentMetrics, prev, "oiliness"), 10),
   redness  |-> MathRound(SmoothField(currentMetrics, prev, "redness"), 10),
   texture  |-> MathRound(SmoothField(currentMetrics, prev, "texture"), 10),
   acne     |-> MathRound(SmoothField(currentMetrics, prev, "acne"), 10),
   wrinkles |-> MathRound(SmoothField(currentMetrics, prev, "wrinkles"), 10)]

applyTemporalSmoothing(currentMetrics, prev) ==
  IF Len(prev) = 0 THEN currentMetrics
  ELSE [oiliness |-> MathRound(SmoothField(currentMetrics, prev, "oiliness"), 10),
        redness  |-> MathRound(SmoothField(currentMetrics, prev, "redness"), 10),
        texture  |-> MathRound(SmoothField(currentMetrics, prev, "texture"), 10),
        acne     |-> MathRound(SmoothField(currentMetrics, prev, "acne"), 10),
        wrinkles |-> MathRound(SmoothField(currentMetrics, prev, "wrinkles"), 10)]

---------------------------------------------------------------------------
(* Skin type: ITA angle and classification                                 *)

\* a = (r - g) * 0.5 * 100 / 255 and b = (g - b) * 0.5 * 100 / 255,
\* both held in units of 50/255; l in units of 1/2550
rgbToLabSimplified(rgb) ==
  [l |-> Lum(rgb), a |-> rgb.r - rgb.g, b |-> rgb.g - rgb.b]

\* tan(k degrees) * 10^6 for k = 1..45
TanE6 ==
  <<17455, 34921, 52408, 69927, 87489, 105104, 122785, 140541, 158384,
    176327, 194380, 212557, 230868, 249328, 267949, 286745, 305731, 324920,
    344328, 363970, 383864, 404026, 424475, 445229, 466308, 487733, 509525,
    531709, 554309, 577350, 600861, 624869, 649408, 674509, 700208, 726543,
    753554, 781286, 809784, 839100, 869287, 900404, 932515, 965689, 1000000>>

\* atan2(y, x) >= d degrees, for x > 0, y >= 0 and d in 1..89
AtLeastDeg(y, x, d) ==
  IF d <= 45 THEN y * 1000000 >= x * TanE6[d]
  ELSE x * 1000000 <= y * TanE6[90 - d]

\* An angle in degrees is held as 2k when it equals the integer k and as
\* 2k + 1 when it lies strictly between k and k + 1, so that comparing two
\* held values with an integer number of degrees is exact.
\* Angle of (x, y) for x > 0, y > 0:
AngleQ1(y, x) ==
  IF x = y THEN 90
  ELSE 2 * Cardinality({d \in 1..89 : AtLeastDeg(y, x, d)}) + 1

\* Math.atan2(y, x) * (180 / Math.PI)
Atan2Deg(y, x) ==
  LET up(yy) == IF yy = 0 THEN (IF x < 0 THEN 360 ELSE 0)
                ELSE IF x = 0 THEN 180
                ELSE IF x > 0 THEN AngleQ1(yy, x)
                ELSE 360 - AngleQ1(yy, 0 - x)
  IN  IF y >= 0 THEN up(y) ELSE 0 - up(0 - y)

Deg(k) == 2 * k

\* classifySkinType with >= at its thresholds
classifySkinTypeInclusive(ita) ==
  IF ita >= Deg(55) THEN "very-light"
  ELSE IF ita >= Deg(41) THEN "light"
  ELSE IF ita >= Deg(28) THEN "medium"
  ELSE IF ita >= Deg(10) THEN "tan"
  ELSE "dark"

classifySkinType(ita) ==
  IF ita > Deg(55) THEN "very-light"
  ELSE IF ita > Deg(41) THEN "light"
  ELSE IF ita > Deg(28) THEN "medium"
  ELSE IF ita > Deg(10) THEN "tan"
  ELSE "dark"

determineSkinType(c) ==
  LET dominantRGB == hexToRgb(getDominantColor(c))
      lab == rgbToLabSimplified(dominantRGB)
      ita == Atan2Deg(lab.b, lab.a)
  IN  classifySkinType(ita)

\* arguments 0..200 at which the double x * 1.15, x * 0.7 evaluates just
\* below the tie k + 0.5 (none for 0.85, 0.95, 1.05, 1.1)
TieDown115 == {50, 90, 110, 170, 190}
TieDown070 == {45, 85, 165, 175}

\* Math.round(x * factor), factor in hundredths
ScaleRound(x, factor) ==
  IF \/ factor = 115 /\ x \in TieDown115
     \/ factor = 70 /\ x \in TieDown070
  THEN (x * factor) \div 100
  ELSE MathRound(x * factor, 100)

\* applySkinTypeNormalization with the break of case 'tan' missing: the
\* statements of case 'dark' run as well
applySkinTypeNormalizationFallThrough(metrics, c) ==
  LET skinType == determineSkinType(c)
  IN  CASE skinType = "very-light" ->
             [metrics EXCEPT !.oiliness = ScaleRound(@, 85),
                             !.redness  = ScaleRound(@, 115)]
        [] skinType = "light" ->
             [metrics EXCEPT !.oiliness = ScaleRound(@, 95),
                             !.redness  = ScaleRound(@, 105)]
        [] skinType = "tan" ->
             [metrics EXCEPT !.oiliness = ScaleRound(ScaleRound(@, 105), 110),
                             !.redness  = ScaleRound(ScaleRound(@, 85), 70)]
        [] skinType = "dark" ->
             [metrics EXCEPT !.oiliness = ScaleRound(@, 110),
                             !.redness  = ScaleRound(@, 70)]
        [] OTHER -> metrics

applySkinTypeNormalization(metrics, c) ==
  LET dominantRGB == hexToRgb(getDominantColor(c))
      lab == rgbToLabSimplified(dominantRGB)
      ita == Atan2Deg(lab.b, lab.a)
      skinType == classifySkinType(ita)
  IN  CASE skinType = "very-light" ->
             [metrics EXCEPT !.oiliness = ScaleRound(@, 85),
                             !.redness  = ScaleRound(@, 115)]
        [] skinType = "light" ->
             [metrics EXCEPT !.oiliness = ScaleRound(@, 95),
                             !.redness  = ScaleRound(@, 105)]
        [] skinType = "tan" ->
             [metrics EXCEPT !.oiliness = ScaleRound(@, 105),
                             !.redness  = ScaleRound(@, 85)]
        [] skinType = "dark" ->
             [metrics EXCEPT !.oiliness = ScaleRound(@, 110),
                             !.redness  = ScaleRound(@, 70)]
        [] OTHER -> metrics

---------------------------------------------------------------------------
(* Confidence                                                              *)

NoYaw == 999

calculateConfidenceScore(c, face, envFactors) ==
  LET dominantRGB == hexToRgb(getDominantColor(c))
      s == Sum3(dominantRGB)     \* brightness = s / 3
      lightingScore == IF s < 120 \/ s > 600 THEN 70
                       ELSE IF s < 180 \/ s > 540 THEN 85 ELSE 100
      angleScore == IF face = NoYaw THEN 100
                    ELSE IF Abs(face) < 15 THEN 100
                    ELSE IF Abs(face) < 30 THEN 85 ELSE 70
      avgRGB == hexToRgb(getAverageColor(c))
      colorDiff == ChannelDiff(dominantRGB, avgRGB)
      consistencyScore == IF colorDiff < 50 THEN 100
                          ELSE IF colorDiff < 100 THEN 85 ELSE 70
      \* envScore = env3 / 3
      env3 == envFactors.lightingQuality + envFactors.colorTemperature
              + envFactors.contrast
  IN  MathRound(3 * (lightingScore + angleScore + consistencyScore) + env3, 12)

---------------------------------------------------------------------------
(* Advice.  A text is held as the sentence chosen (metric and tier), the   *)
(* confidence prefix and the skin-type clause spliced into it.             *)

NoConfidence == 0
NoSkinType   == ""

Tier(score, high, moderate) ==
  IF score >= high THEN "high" ELSE IF score >= moderate THEN "moderate" ELSE "low"

AdviceText(metric, tier, prefix, skinContext) ==
  [metric |-> metric, tier |-> tier, prefix |-> prefix, skinContext |-> skinContext]

generateOilinessAdvice(score, prefix, skinContext) ==
  AdviceText("oiliness", Tier(score, 70, 40), prefix, skinContext)
generateRednessAdvice(score, prefix, skinContext) ==
  AdviceText("redness", Tier(score, 60, 30), prefix, skinContext)
generateTextureAdvice(score, prefix, skinContext) ==
  AdviceText("texture", Tier(score, 70, 40), prefix, skinContext)
generateAcneAdvice(score, prefix, skinContext) ==
  AdviceText("acne", Tier(score, 60, 30), prefix, skinContext)
generateWrinklesAdvice(score, prefix, skinContext) ==
  AdviceText("wrinkles", Tier(score, 60, 30), prefix, skinContext)

\* the advice with the caveat given at every supplied confidence
generateAdviceFromMetricsAlwaysCaveat(metrics, confidence, skinType) ==
  LET confidencePrefix ==
        IF confidence # NoConfidence
        THEN "Based on current image quality, " ELSE ""
      skinTypeContext == skinType
  IN  [oiliness |-> generateOilinessAdvice(metrics.oiliness, confidencePrefix, skinTypeContext),
       redness  |-> generateRednessAdvice(metrics.redness, confidencePrefix, skinTypeContext),
       texture  |-> generateTextureAdvice(metrics.texture, confidencePrefix, skinTypeContext),
       acne     |-> generateAcneAdvice(OrZero(metrics.acne), confidencePrefix, skinTypeContext),
       wrinkles |-> generateWrinklesAdvice(OrZero(metrics.wrinkles), confidencePrefix, skinTypeContext)]

generateAdviceFromMetrics(metrics, confidence, skinType) ==
  LET confidencePrefix ==
        IF confidence # NoConfidence /\ confidence < 80
        THEN "Based on current image quality, " ELSE ""
      skinTypeContext == skinType
  IN  [oiliness |-> generateOilinessAdvice(metrics.oiliness, confidencePrefix, skinTypeContext),
       redness  |-> generateRednessAdvice(metrics.redness, confidencePrefix, skinTypeContext),
       texture  |-> generateTextureAdvice(metrics.texture, confidencePrefix, skinTypeContext),
       acne     |-> generateAcneAdvice(OrZero(metrics.acne), confidencePrefix, skinTypeContext),
       wrinkles |-> generateWrinklesAdvice(OrZero(metrics.wrinkles), confidencePrefix, skinTypeContext)]

---------------------------------------------------------------------------
(* The engine: analyzeRealImageEnhanced and its fallback analyzeRealImage   *)

NoEnv == [lightingQuality |-> Undefined, colorTemperature |-> Undefined,
          contrast |-> Undefined]

\* a previous-results entry that is null: reading a field of it throws
NullRecord == [null |-> TRUE]

\* the try block of analyzeRealImageEnhanced throws after getColors resolved
StageThrows(prev) == \E i \in 1..Min(2, Len(prev)) : prev[i] = NullRecord

\* EnhancedResult with the confidence lowered by 5 when there is no history
EnhancedResultHistoryAware(c, face, prev) ==
  LET envFactors        == calculateEnvironmentalQuality(c)
      rawMetrics        == analyzeColorsForSkinMetrics(c)
      adjustedMetrics   == applyEnvironmentalCorrections(rawMetrics, envFactors)
      smoothedMetrics   == applyTemporalSmoothing(adjustedMetrics, prev)
      normalizedMetrics == applySkinTypeNormalization(smoothedMetrics, c)
      confidence        == calculateConfidenceScore(c, face, envFactors)
                             - (IF Len(prev) = 0 THEN 5 ELSE 0)
      skinType          == determineSkinType(c)
      advice == generateAdviceFromMetrics(normalizedMetrics, confidence, skinType)
  IN  [metrics |-> normalizedMetrics, advice |-> advice,
       confidence |-> confidence, skinType |-> skinType,
       environmentalFactors |-> envFactors]

\* the value the try block of analyzeRealImageEnhanced returns
EnhancedResult(c, face, prev) ==
  LET envFactors        == calculateEnvironmentalQuality(c)
      rawMetrics        == analyzeColorsForSkinMetrics(c)
      adjustedMetrics   == applyEnvironmentalCorrections(rawMetrics, envFactors)
      smoothedMetrics   == applyTemporalSmoothing(adjustedMetrics, prev)
      normalizedMetrics == applySkinTypeNormalization(smoothedMetrics, c)
      confidence        == calculateConfidenceScore(c, face, envFactors)
      skinType          == determineSkinType(c)
      advice == generateAdviceFromMetrics(normalizedMetrics, confidence, skinType)
  IN  [metrics |-> normalizedMetrics, advice |-> advice,
       confidence |-> confidence, skinType |-> skinType,
       environmentalFactors |-> envFactors]

\* the value the try block of analyzeRealImage returns
LegacyResult(c) ==
  LET metrics == analyzeColorsForSkinMetrics(c)
  IN  [metrics |-> metrics,
       advice |-> generateAdviceFromMetrics(metrics, NoConfidence, NoSkinType),
       confidence |-> Undefined, skinType |-> NoSkinType,
       environmentalFactors |-> NoEnv]

FixedAdvice(metric) ==
  [metric |-> metric, tier |-> "fixed", prefix |-> "", skinContext |-> NoSkinType]

\* the value the catch block of analyzeRealImage returns
DefaultResult ==
  [metrics |-> [oiliness |-> 45, redness |-> 25, texture |-> 35,
                acne |-> 15, wrinkles |-> 20],
   advice |-> [oiliness |-> FixedAdvice("oiliness"),
               redness  |-> FixedAdvice("redness"),
               texture  |-> FixedAdvice("texture"),
               acne     |-> FixedAdvice("acne"),
               wrinkles |-> FixedAdvice("wrinkles")],
   confidence |-> Undefined, skinType |-> NoSkinType,
   environmentalFactors |-> NoEnv]

\* the promise of the engine rejects
RejectedResult == [rejected |-> TRUE]

\* analyzeRealImage without its catch block
analyzeRealImageRethrowing(c, ok) ==
  IF ok THEN [path |-> "legacy", value |-> LegacyResult(c)]
  ELSE [path |-> "default", value |-> RejectedResult]

\* analyzeRealImage(imageUri), getColors resolving (ok) or rejecting
analyzeRealImage(c, ok) ==
  IF ok THEN [path |-> "legacy", value |-> LegacyResult(c)]
  ELSE [path |-> "default", value |-> DefaultResult]

\* analyzeRealImageEnhanced(imageUri, faceData, previousResults); ok1 and ok2
\* tell whether its getColors and the fallback's getColors resolve
analyzeRealImageEnhanced(c, face, prev, ok1, ok2) ==
  IF ok1 /\ ~StageThrows(prev)
  THEN [path |-> "enhanced", value |-> EnhancedResult(c, face, prev)]
  ELSE analyzeRealImage(c, ok2)

\* ---- inputs of the engine ----
MaxPrev == 2

BadString == <<Hash, 15, 15, 15>>

DominantStrings ==
  {Hex(255, 160, 0), Hex(240, 229, 208), Hex(139, 69, 19), Hex(255, 255, 255),
   Hex(0, 0, 0), Hex(200, 160, 120), Hex(200, 140, 120), NoColor, BadString}
AverageStrings ==
  {Hex(255, 0, 0), Hex(232, 213, 183), Hex(160, 82, 45), NoColor, BadString}
VibrantStrings ==
  {Hex(220, 197, 160), Hex(205, 133, 63), NoColor, BadString}
YawAngles == {NoYaw, 20, 40}

Metrics(o, r, t, a, w) ==
  [oiliness |-> o, redness |-> r, texture |-> t, acne |-> a, wrinkles |-> w]
PreviousRecords ==
  {Metrics(0, 0, 0, 0, 0), Metrics(100, 100, 100, 100, 100),
   Metrics(50, 30, 40, Undefined, Undefined), NullRecord}

SeqsUpTo(S, n) == UNION {[1..k -> S] : k \in 0..n}

\* the object getColors resolves with, by platform
ColorsOf(platform, d, a, v) ==
  IF platform = "ios"
  THEN [platform |-> "ios", primary |-> d, secondary |-> a, detail |-> v,
        dominant |-> NoColor, average |-> NoColor, vibrant |-> NoColor]
  ELSE [platform |-> "android", primary |-> NoColor, secondary |-> NoColor,
        detail |-> NoColor, dominant |-> d, average |-> a, vibrant |-> v]

\* ---- the reference fixtures of the test suite ----
Range(lo, hi) == <<lo, hi>>

testCases ==
  <<[mockColors |-> ColorsOf("ios", Hex(240, 229, 208), Hex(232, 213, 183),
                             Hex(220, 197, 160)),
     expectedRanges |-> [oiliness |-> Range(60, 80), redness |-> Range(5, 25),
                         texture |-> Range(20, 50), acne |-> Range(5, 30),
                         wrinkles |-> Range(10, 40)]],
    [mockColors |-> ColorsOf("ios", Hex(139, 69, 19), Hex(160, 82, 45),
                             Hex(205, 133, 63)),
     expectedRanges |-> [oiliness |-> Range(20, 45), redness |-> Range(5, 20),
                         texture |-> Range(25, 60), acne |-> Range(10, 35),
                         wrinkles |-> Range(15, 45)]],
    [mockColors |-> ColorsOf("ios", Hex(230, 184, 162), Hex(212, 165, 116),
                             Hex(200, 150, 96)),
     expectedRanges |-> [oiliness |-> Range(25, 55), redness |-> Range(40, 70),
                         texture |-> Range(30, 65), acne |-> Range(15, 40),
                         wrinkles |-> Range(20, 50)]]>>

\* testAccuracy(actualResults, testCase): score = correct / total * 100,
\* accurate from 70 on
testAccuracy(actualResults, testCase) ==
  LET expectedRanges == testCase.expectedRanges
      isInRange(metric) == /\ actualResults[metric] >= expectedRanges[metric][1]
                           /\ actualResults[metric] <= expectedRanges[metric][2]
      correctPredictions == Cardinality({m \in DOMAIN expectedRanges : isInRange(m)})
      totalMetrics == Cardinality(DOMAIN expectedRanges)
  IN  [isAccurate |-> correctPredictions * 100 >= 70 * totalMetrics,
       correctPredictions |-> correctPredictions,
       totalMetrics |-> totalMetrics]

\* further extractor results: the third fixture of testCases
\* ('#E6B8A2', '#D4A574', '#C89660') and a warm, evenly lit sample
FurtherColors ==
  {ColorsOf(p, Hex(230, 184, 162), Hex(212, 165, 116), Hex(200, 150, 96)) :
     p \in {"ios", "android"}}
  \cup {ColorsOf(p, Hex(200, 160, 120), Hex(200, 150, 96), v) :
          p \in {"ios", "android"}, v \in VibrantStrings}

ExtractedColors ==
  {ColorsOf(p, d, a, v) : p \in {"ios", "android"}, d \in DominantStrings,
                          a \in AverageStrings, v \in VibrantStrings}
  \cup FurtherColors

NoResult == [none |-> TRUE]

EngineInputs ==
  /\ colors \in ExtractedColors
  /\ faceData \in YawAngles
  /\ previousResults \in SeqsUpTo(PreviousRecords, MaxPrev)
  /\ isPremium \in BOOLEAN

EngineInit ==
  /\ EngineInputs
  /\ epc = "idle"
  /\ getColorsOk = <<TRUE, TRUE>>
  /\ path = "none"
  /\ result = NoResult

\* analyzeRealImageEnhanced called once on the current inputs
AnalyzeRealImageEnhanced ==
  /\ epc = "idle"
  /\ \E ok1, ok2 \in BOOLEAN :
       LET r == analyzeRealImageEnhanced(colors, faceData, previousResults, ok1, ok2)
       IN  /\ getColorsOk' = <<ok1, ok2>>
           /\ path' = r.path
           /\ result' = r.value
  /\ epc' = "done"
  /\ UNCHANGED <<colors, faceData, previousResults, isPremium>>
  /\ UNCHANGED <<dbVars, usageVars, netVars, restVars>>

---------------------------------------------------------------------------
(* DatabaseService: table analyses                                         *)

MaxIds  == 4
MaxTime == 4
HistoryLimit == 3

AnalysisIds == 1..MaxIds
Timestamps  == 1..MaxTime
Row(id, timestamp) == [id |-> id, timestamp |-> timestamp]
Rows == {Row(i, t) : i \in AnalysisIds, t \in Timestamps}

\* INSERT OR REPLACE INTO analyses ... (id is the primary key)
InsertOrReplace(rows, rec) == {r \in rows : r.id # rec.id} \cup {rec}

\* the cleanup with ORDER BY timestamp ASC
cleanupKeepingOldest(rows) ==
  {keep \in SUBSET rows :
     /\ Cardinality(keep) = Min(HistoryLimit, Cardinality(rows))
     /\ \A k \in keep : \A d \in rows \ keep : k.timestamp <= d.timestamp}

\* DELETE FROM analyses WHERE id NOT IN
\*   (SELECT id FROM analyses ORDER BY timestamp DESC LIMIT 3):
\* the tables that can remain; rows of equal timestamp are ordered as SQLite
\* pleases
cleanupOldAnalyses(rows) ==
  {keep \in SUBSET rows :
     /\ Cardinality(keep) = Min(HistoryLimit, Cardinality(rows))
     /\ \A k \in keep : \A d \in rows \ keep : k.timestamp >= d.timestamp}

NoOp == [op |-> "none", id |-> 0, timestamp |-> 0]

DbInit ==
  /\ analyses = {}
  /\ lastOp = NoOp

saveAnalysis ==
  \E rec \in Rows :
    /\ analyses' \in cleanupOldAnalyses(InsertOrReplace(analyses, rec))
    /\ lastOp' = [op |-> "save", id |-> rec.id, timestamp |-> rec.timestamp]
    /\ UNCHANGED <<engineVars, isPremium, usageVars, netVars, restVars>>

deleteAnalysis ==
  \E id \in AnalysisIds :
    /\ analyses' = {r \in analyses : r.id # id}
    /\ lastOp' = [op |-> "delete", id |-> id, timestamp |-> 0]
    /\ UNCHANGED <<engineVars, isPremium, usageVars, netVars, restVars>>

clearAllData ==
  /\ analyses' = {}
  /\ lastOp' = [op |-> "clear", id |-> 0, timestamp |-> 0]
  /\ UNCHANGED <<engineVars, isPremium, usageVars, netVars, restVars>>

---------------------------------------------------------------------------
(* StorageService: monthly usage limit.  Months are numbered; the stored   *)
(* month string 'YYYY-MM' is held as its number, '' as NoMonth.            *)

MaxMonth == 4
MaxCount == 3
NoMonth  == 0

UsageInit ==
  /\ freeCount = 0
  /\ freeMonth = NoMonth
  /\ now = 1
  /\ lastCheck = TRUE
  /\ recordedMonth = NoMonth
  /\ uop = "none"

\* checkCanAnalyze comparing the count with <= 1
checkCanAnalyzeOffByOne ==
  /\ uop' = "check"
  /\ IF isPremium
     THEN /\ lastCheck' = TRUE
          /\ UNCHANGED <<freeCount, freeMonth>>
     ELSE IF freeMonth # now
     THEN /\ freeCount' = 0
          /\ freeMonth' = now
          /\ lastCheck' = TRUE
     ELSE /\ lastCheck' = (freeCount <= 1)
          /\ UNCHANGED <<freeCount, freeMonth>>
  /\ UNCHANGED <<now, recordedMonth, isPremium>>
  /\ UNCHANGED <<engineVars, dbVars, netVars, restVars>>

\* resetFreeAnalysisCount sets the count to 0 and the month to the current one
checkCanAnalyze ==
  /\ uop' = "check"
  /\ IF isPremium
     THEN /\ lastCheck' = TRUE
          /\ UNCHANGED <<freeCount, freeMonth>>
     ELSE IF freeMonth # now
     THEN /\ freeCount' = 0
          /\ freeMonth' = now
          /\ lastCheck' = TRUE
     ELSE /\ lastCheck' = (freeCount < 1)
          /\ UNCHANGED <<freeCount, freeMonth>>
  /\ UNCHANGED <<now, recordedMonth, isPremium>>
  /\ UNCHANGED <<engineVars, dbVars, netVars, restVars>>

incrementFreeAnalysis ==
  IF freeMonth # now
  THEN /\ freeCount' = 1
       /\ freeMonth' = now
  ELSE /\ freeCount' = freeCount + 1
       /\ UNCHANGED freeMonth

\* incrementAnalysisCount without its premium test
incrementAnalysisCountAlways ==
  /\ freeMonth # now \/ freeCount < MaxCount
  /\ uop' = "increment"
  /\ incrementFreeAnalysis
  /\ recordedMonth' = now
  /\ UNCHANGED <<now, lastCheck, isPremium>>
  /\ UNCHANGED <<engineVars, dbVars, netVars, restVars>>

incrementAnalysisCount ==
  /\ isPremium \/ freeMonth # now \/ freeCount < MaxCount
  /\ uop' = "increment"
  /\ IF isPremium
     THEN UNCHANGED <<freeCount, freeMonth, recordedMonth>>
     ELSE /\ incrementFreeAnalysis
          /\ recordedMonth' = now
  /\ UNCHANGED <<now, lastCheck, isPremium>>
  /\ UNCHANGED <<engineVars, dbVars, netVars, restVars>>

\* storage.setPremiumStatus, as called by the purchase service
setPremiumStatus ==
  /\ isPremium' \in BOOLEAN
  /\ uop' = "setPremium"
  /\ UNCHANGED <<freeCount, freeMonth, now, lastCheck, recordedMonth>>
  /\ UNCHANGED <<engineVars, dbVars, netVars, restVars>>

\* the calendar moves to the next month
AdvanceMonth ==
  /\ now < MaxMonth
  /\ now' = now + 1
  /\ uop' = "month"
  /\ UNCHANGED <<freeCount, freeMonth, lastCheck, recordedMonth, isPremium>>
  /\ UNCHANGED <<engineVars, dbVars, netVars, restVars>>

---------------------------------------------------------------------------
(* Outbound requests: OpenAIService.generateEnhancedRoutines and           *)
(* analyzeWithOpenAI                                                       *)

TimeoutSeconds == 15
MaxRequests    == 2

RoutineMetrics ==
  {Metrics(70, 60, 40, 35, 20), Metrics(30, 20, 40, Undefined, Undefined)}
RoutineSkinTypes == {"medium", "dark"}
Seasons == {"winter", "summer", "spring"}

getPrimaryConcerns(metrics) ==
  LET concerns ==
        (IF metrics.oiliness > 60 THEN {"excess oil production"} ELSE {})
        \cup (IF metrics.redness > 50 THEN {"inflammation/redness"} ELSE {})
        \cup (IF metrics.texture > 60 THEN {"rough texture"} ELSE {})
        \cup (IF OrZero(metrics.acne) > 40 THEN {"acne"} ELSE {})
        \cup (IF OrZero(metrics.wrinkles) > 40 THEN {"signs of aging"} ELSE {})
  IN  IF concerns # {} THEN concerns ELSE {"general skin maintenance"}

\* the values the prompt template interpolates
buildRoutinePrompt(metrics, skinType, season) ==
  [skinType |-> skinType, season |-> season,
   oiliness |-> metrics.oiliness, redness |-> metrics.redness,
   texture |-> metrics.texture,
   acne |-> OrZero(metrics.acne), wrinkles |-> OrZero(metrics.wrinkles),
   concerns |-> getPrimaryConcerns(metrics)]

\* the parts of the fallback routine that depend on the arguments
getFallbackRoutines(metrics, skinType, season) ==
  [source |-> "fallback",
   morningMoisturizer |-> IF metrics.oiliness > 60
                          THEN "Lightweight Gel Moisturizer" ELSE "Hydrating Cream",
   eveningTreatment |-> IF OrZero(metrics.acne) > 30
                        THEN "Salicylic Acid (2%)" ELSE "Retinol Serum",
   skinType |-> skinType,
   season |-> season,
   seasonalTip |-> IF season = "winter" THEN "heavier moisturizers"
                   ELSE IF season = "summer" THEN "lighter textures"
                   ELSE "gradual transition",
   cleanser |-> IF metrics.oiliness > 60
                THEN "CeraVe Foaming Cleanser" ELSE "CeraVe Hydrating Cleanser",
   serum |-> IF metrics.redness > 50
             THEN "PURITO Centella" ELSE "The Ordinary Niacinamide"]

\* JSON.parse(content) of a reply that parses
RemoteRoutines == [source |-> "remote"]
NoRoutines     == [source |-> "none"]
\* the promise rejects
Rejected       == [source |-> "rejected"]

\* ---- photo and its base64 encoding ----
Photos == {<<255, 216, 255>>, <<137, 80, 78>>}

\* readAsDataURL: three bytes become four 6-bit characters
Base64(bytes) ==
  <<bytes[1] \div 4,
    (bytes[1] % 4) * 16 + bytes[2] \div 16,
    (bytes[2] % 16) * 4 + bytes[3] \div 64,
    bytes[3] % 64>>

Base64Decode(chars) ==
  <<chars[1] * 4 + chars[2] \div 16,
    (chars[2] % 16) * 16 + chars[3] \div 4,
    (chars[3] % 4) * 64 + chars[4]>>

TextPart(p)    == [type |-> "text", text |-> p, url |-> << >>]
ImagePart(url) == [type |-> "image_url", text |-> "vision prompt", url |-> url]

Request(parts) == [url |-> "https://api.openai.com/v1/chat/completions", content |-> parts]

NoArgs == [metrics |-> Metrics(0, 0, 0, Undefined, Undefined),
           skinType |-> "medium", season |-> "spring"]

NetInit ==
  /\ rpc = "idle"
  /\ rargs = NoArgs
  /\ elapsed = 0
  /\ routcome = "none"
  /\ rresult = NoRoutines
  /\ vresult = "none"
  /\ photo \in Photos
  /\ outbound = << >>

\* generateEnhancedRoutines up to its await of fetch
StartRoutines ==
  /\ rpc \in {"idle", "done"}
  /\ Len(outbound) < MaxRequests
  /\ \E m \in RoutineMetrics, st \in RoutineSkinTypes, se \in Seasons :
       /\ rargs' = [metrics |-> m, skinType |-> st, season |-> se]
       /\ outbound' = Append(outbound,
                        Request(<<TextPart("system prompt"),
                                  TextPart(buildRoutinePrompt(m, st, se))>>))
  /\ rpc' = "fetching"
  /\ elapsed' = 0
  /\ routcome' = "none"
  /\ rresult' = NoRoutines
  /\ UNCHANGED <<vresult, photo>>
  /\ UNCHANGED <<engineVars, isPremium, dbVars, usageVars, restVars>>

\* a second passes while the fetch is pending
Tick ==
  /\ rpc = "fetching"
  /\ elapsed < TimeoutSeconds
  /\ elapsed' = elapsed + 1
  /\ UNCHANGED <<rpc, rargs, routcome, rresult, vresult, photo, outbound>>
  /\ UNCHANGED <<engineVars, isPremium, dbVars, usageVars, restVars>>

\* generateEnhancedRoutines without its outer catch block
RoutinesAfterRethrowing(outcome, args) ==
  IF outcome = "parsed" THEN RemoteRoutines
  ELSE IF outcome = "unparseable"
  THEN getFallbackRoutines(args.metrics, args.skinType, args.season)
  ELSE Rejected

\* what generateEnhancedRoutines returns once its fetch has ended as outcome
RoutinesAfter(outcome, args) ==
  IF outcome = "parsed" THEN RemoteRoutines
  ELSE getFallbackRoutines(args.metrics, args.skinType, args.season)

\* the fetch ends before the timer fires: with a reply that parses, a reply
\* whose content is not JSON, a reply without choices, a status that is not
\* ok, or a network failure
FetchEnds ==
  /\ rpc = "fetching"
  /\ \E outcome \in {"parsed", "unparseable", "malformed", "httpError", "networkError"} :
       /\ routcome' = outcome
       /\ rresult' = RoutinesAfter(outcome, rargs)
  /\ rpc' = "done"
  /\ UNCHANGED <<rargs, elapsed, vresult, photo, outbound>>
  /\ UNCHANGED <<engineVars, isPremium, dbVars, usageVars, restVars>>

\* setTimeout(() => controller.abort(), 15000) fires: the fetch rejects
TimeoutAbort ==
  /\ rpc = "fetching"
  /\ elapsed = TimeoutSeconds
  /\ routcome' = "abort"
  /\ rresult' = RoutinesAfter("abort", rargs)
  /\ rpc' = "done"
  /\ UNCHANGED <<rargs, elapsed, vresult, photo, outbound>>
  /\ UNCHANGED <<engineVars, isPremium, dbVars, usageVars, restVars>>

\* analyzeWithOpenAI(imageUri): the photo is read, encoded and posted
analyzeWithOpenAI ==
  /\ rpc \in {"idle", "done"}
  /\ Len(outbound) < MaxRequests
  /\ \E converted \in BOOLEAN :
       IF converted
       THEN /\ outbound' = Append(outbound,
                             Request(<<TextPart("vision prompt"),
                                       ImagePart(Base64(photo))>>))
            /\ vresult' \in {"remote", "fallback"}
       ELSE /\ UNCHANGED outbound
            /\ vresult' = "fallback"
  /\ photo' \in Photos
  /\ UNCHANGED <<rpc, rargs, elapsed, routcome, rresult>>
  /\ UNCHANGED <<engineVars, isPremium, dbVars, usageVars, restVars>>

---------------------------------------------------------------------------
(* Single functions of the engine applied to an argument                   *)

\* Math.atan2(..) * (180 / Math.PI) lies in [-180, 180]
MaxIta == 180

\* the angles from -180 to 180 degrees: the whole degrees and the values
\* between two neighbouring whole degrees
ItaValues == (0 - Deg(MaxIta))..Deg(MaxIta)

NoReturn == [none |-> TRUE]

ClassifyInit ==
  /\ fn = "none"
  /\ arg \in ItaValues
  /\ ret = NoReturn

\* classifySkinType(ita)
ClassifySkinType ==
  /\ fn = "none"
  /\ arg \in ItaValues
  /\ fn' = "classifySkinType"
  /\ ret' = classifySkinType(arg)
  /\ UNCHANGED arg
  /\ UNCHANGED <<engineVars, isPremium, dbVars, usageVars, netVars, hookVars>>
  /\ UNCHANGED <<usageLimit, iapVars, appVars>>

---------------------------------------------------------------------------
(* useFaceAnalysis.analyzeImage.  Each await of the function is a point    *)
(* where another call of it can run.                                       *)

MaxRuns == 2
Runs == 1..MaxRuns

HookInit ==
  /\ hpc = [p \in Runs |-> "idle"]
  /\ hret = [p \in Runs |-> "none"]
  /\ isAnalyzing = FALSE
  /\ progress = 0
  /\ leftAnalyzing = [p \in Runs |-> FALSE]
  /\ savedBy = {}
  /\ countedBy = {}

\* the value storage.checkCanAnalyze returns in the current storage state
checkCanAnalyzeReturns ==
  IF isPremium THEN TRUE
  ELSE IF freeMonth # now THEN TRUE
  ELSE freeCount < 1

\* call p returns value; analyzing is the isAnalyzing it leaves behind
HookReturns(p, value, analyzing) ==
  /\ hpc' = [hpc EXCEPT ![p] = "returned"]
  /\ hret' = [hret EXCEPT ![p] = value]
  /\ isAnalyzing' = analyzing
  /\ leftAnalyzing' = [leftAnalyzing EXCEPT ![p] = analyzing]

\* the catch block: setState({isAnalyzing: false, progress: 0, ...}); return null
HookCatch(p) == HookReturns(p, "null", FALSE) /\ progress' = 0

HookFrame == UNCHANGED <<engineVars, dbVars, netVars, fnVars, usageLimit, iapVars,
                         appVars>>
             /\ UNCHANGED <<now, lastCheck, recordedMonth, uop>>

\* analyzeImage is called: setState({isAnalyzing: true, progress: 0, ...})
HookBegin(p) ==
  /\ hpc[p] = "idle"
  /\ hpc' = [hpc EXCEPT ![p] = "checking"]
  /\ isAnalyzing' = TRUE
  /\ progress' = 0
  /\ UNCHANGED <<hret, leftAnalyzing, savedBy, countedBy, freeCount, freeMonth>>
  /\ UNCHANGED isPremium
  /\ HookFrame

\* await storage.checkCanAnalyze(); if (!canAnalyze) { setState(error); return null }
HookCheck(p) ==
  /\ hpc[p] = "checking"
  /\ IF ~isPremium /\ freeMonth # now
     THEN freeCount' = 0 /\ freeMonth' = now
     ELSE UNCHANGED <<freeCount, freeMonth>>
  /\ IF checkCanAnalyzeReturns
     THEN /\ hpc' = [hpc EXCEPT ![p] = "detecting"]
          /\ progress' = 10
          /\ UNCHANGED <<hret, isAnalyzing, leftAnalyzing>>
     ELSE /\ HookReturns(p, "null", isAnalyzing)
          /\ UNCHANGED progress
  /\ UNCHANGED <<savedBy, countedBy, isPremium>>
  /\ HookFrame

\* mediaPipe.initialize and detectFace: a face (progress 40, then 60), no
\* face (setState(error); return null, progress left at 25), or an exception
HookDetectFace(p) ==
  /\ hpc[p] = "detecting"
  /\ \E outcome \in {"face", "noFace", "throws"} :
       IF outcome = "face"
       THEN /\ hpc' = [hpc EXCEPT ![p] = "analyzing"]
            /\ progress' = 60
            /\ UNCHANGED <<hret, isAnalyzing, leftAnalyzing>>
       ELSE IF outcome = "noFace"
       THEN /\ HookReturns(p, "null", isAnalyzing)
            /\ progress' = 25
       ELSE HookCatch(p)
  /\ UNCHANGED <<savedBy, countedBy, freeCount, freeMonth, isPremium>>
  /\ HookFrame

\* opencv.analyzeSkin, iap.checkPremiumStatus, advice and routines;
\* checkPremiumStatus stores what the purchase service reports when the
\* stored status is not premium
HookAnalyzeSkin(p) ==
  /\ hpc[p] = "analyzing"
  /\ \E ok \in BOOLEAN :
       IF ok
       THEN /\ hpc' = [hpc EXCEPT ![p] = "saving"]
            /\ isPremium' \in (IF isPremium THEN {TRUE} ELSE BOOLEAN)
            /\ progress' = 95
            /\ UNCHANGED <<hret, isAnalyzing, leftAnalyzing>>
       ELSE /\ HookCatch(p)
            /\ UNCHANGED isPremium
  /\ UNCHANGED <<savedBy, countedBy, freeCount, freeMonth>>
  /\ HookFrame

\* the save step with the usage count updated before the record is saved
HookSaveAfterCounting(p) ==
  /\ hpc[p] = "saving"
  /\ IF isPremium
     THEN UNCHANGED <<freeCount, freeMonth>>
     ELSE incrementFreeAnalysis
  /\ \E ok \in BOOLEAN :
       IF ok
       THEN /\ hpc' = [hpc EXCEPT ![p] = "counting"]
            /\ savedBy' = savedBy \cup {p}
            /\ UNCHANGED <<hret, isAnalyzing, leftAnalyzing, progress>>
       ELSE /\ HookCatch(p)
            /\ UNCHANGED savedBy
  /\ UNCHANGED <<countedBy, isPremium>>
  /\ HookFrame

\* await database.saveAnalysis(analysisResult)
HookSave(p) ==
  /\ hpc[p] = "saving"
  /\ \E ok \in BOOLEAN :
       IF ok
       THEN /\ hpc' = [hpc EXCEPT ![p] = "counting"]
            /\ savedBy' = savedBy \cup {p}
            /\ UNCHANGED <<hret, isAnalyzing, leftAnalyzing, progress>>
       ELSE /\ HookCatch(p)
            /\ UNCHANGED savedBy
  /\ UNCHANGED <<countedBy, freeCount, freeMonth, isPremium>>
  /\ HookFrame

\* await storage.incrementAnalysisCount(); updateProgress(100, ...);
\* setState({isAnalyzing: false, progress: 100, ...}); return analysisResult
HookIncrement(p) ==
  /\ hpc[p] = "counting"
  /\ IF isPremium
     THEN UNCHANGED <<freeCount, freeMonth>>
     ELSE incrementFreeAnalysis
  /\ countedBy' = (IF isPremium THEN countedBy ELSE countedBy \cup {p})
  /\ HookReturns(p, "result", FALSE)
  /\ progress' = 100
  /\ UNCHANGED <<savedBy, isPremium>>
  /\ HookFrame

---------------------------------------------------------------------------
(* Repeated analyses: each analysis receives the metrics of the two most   *)
(* recently stored records as its history and its result is stored.  The   *)
(* caller that reads the history and passes it to analyzeRealImageEnhanced *)
(* is not part of the sources; it is modelled from the design document     *)
(* (ResultStore.getRecentMetrics(limit), then the caller persists the      *)
(* resulting record).                                                      *)

MaxAnalyses == 4

RepeatColors ==
  {ColorsOf("ios", Hex(255, 160, 0), Hex(255, 0, 0), Hex(220, 197, 160)),
   ColorsOf("ios", Hex(240, 229, 208), Hex(232, 213, 183), Hex(220, 197, 160)),
   ColorsOf("ios", Hex(139, 69, 19), Hex(160, 82, 45), Hex(205, 133, 63)),
   ColorsOf("ios", Hex(180, 140, 110), Hex(180, 140, 110), Hex(180, 140, 110))}

RepeatInit ==
  /\ stored = << >>
  /\ analysesRun = 0

\* one analysis: read up to two prior records, analyse, persist the result
AnalyzeAndStore ==
  /\ analysesRun < MaxAnalyses
  /\ \E c \in RepeatColors :
       LET history == Slice2(stored)
           r == analyzeRealImageEnhanced(c, NoYaw, history, TRUE, TRUE)
       IN  stored' = <<r.value.metrics>> \o SubSeq(stored, 1, Min(1, Len(stored)))
  /\ analysesRun' = analysesRun + 1
  /\ UNCHANGED <<engineVars, isPremium, dbVars, usageVars, netVars, fnVars,
                 hookVars, usageLimit, iapVars>>
  /\ UNCHANGED <<basicAnalysis, premiumReport, reportSaved>>

---------------------------------------------------------------------------
(* PremiumReportScreen over the analyses table.  A result object carries   *)
(* premiumReport only when the field is present.                           *)

\* the values saveAnalysis binds to the columns of table analyses
ToRow(analysisResult) == Row(analysisResult.id, analysisResult.timestamp)

\* mapDatabaseToResult: the result object built from the columns of a row
mapDatabaseToResult(row) == [id |-> row.id, timestamp |-> row.timestamp]

\* getAnalysisById: SELECT * FROM analyses WHERE id = ? LIMIT 1
getAnalysisById(id) ==
  LET found == {r \in analyses : r.id = id}
  IN  IF found = {} THEN NullRecord
      ELSE mapDatabaseToResult(CHOOSE r \in found : TRUE)

\* (analysis as any)?.premiumReport is truthy
HasReport(analysis) ==
  analysis # NullRecord /\ "premiumReport" \in DOMAIN analysis

\* tables the application can hold: one row per id, at most HistoryLimit rows
StoredTables ==
  {t \in SUBSET Rows :
     /\ Cardinality(t) <= HistoryLimit
     /\ \A r1, r2 \in t : r1.id = r2.id => r1 = r2}

ReportInit ==
  /\ analyses \in StoredTables
  /\ lastOp = NoOp
  /\ basicAnalysis = NullRecord
  /\ premiumReport = "none"
  /\ reportSaved = {}

ScreenFrame ==
  UNCHANGED <<engineVars, isPremium, usageVars, netVars, fnVars, hookVars,
              usageLimit, iapVars, stored, analysesRun>>

\* the screen is opened for analysisId: loadAnalysisData
loadAnalysisData(analysisId) ==
  LET analysis == getAnalysisById(analysisId)
  IN  /\ basicAnalysis' = analysis
      /\ premiumReport' = (IF HasReport(analysis) THEN analysis.premiumReport
                                                 ELSE "none")
      /\ UNCHANGED <<dbVars, reportSaved>>
      /\ ScreenFrame

\* generateReport: generatePremiumReport, setPremiumReport, then
\* database.saveAnalysis({...basicAnalysis, premiumReport: report}); an
\* exception of either call is caught
generateReport ==
  /\ basicAnalysis # NullRecord
  /\ \E generated, saved \in BOOLEAN :
       LET updatedAnalysis == [id |-> basicAnalysis.id,
                               timestamp |-> basicAnalysis.timestamp,
                               premiumReport |-> "report"]
       IN  /\ premiumReport' = (IF generated THEN "report" ELSE premiumReport)
           /\ IF generated /\ saved
              THEN /\ analyses' \in cleanupOldAnalyses(
                                      InsertOrReplace(analyses, ToRow(updatedAnalysis)))
                   /\ lastOp' = [op |-> "save", id |-> updatedAnalysis.id,
                                 timestamp |-> updatedAnalysis.timestamp]
                   /\ reportSaved' = reportSaved \cup {updatedAnalysis.id}
              ELSE UNCHANGED <<dbVars, reportSaved>>
  /\ UNCHANGED basicAnalysis
  /\ ScreenFrame

analyzeImage(p) ==
  \/ HookBegin(p)
  \/ HookCheck(p)
  \/ HookDetectFace(p)
  \/ HookAnalyzeSkin(p)
  \/ HookSave(p)
  \/ HookIncrement(p)

---------------------------------------------------------------------------
(* Usage information for the home screen: StorageService.getUsageLimit.    *)
(* The home screen disables its analyze button with !usageLimit.canAnalyze *)

NoLimit == [none |-> TRUE]

getUsageLimit ==
  /\ usageLimit' = (IF isPremium
                    THEN [monthlyAnalysisCount |-> 0, canAnalyze |-> TRUE]
                    ELSE [monthlyAnalysisCount |-> freeCount,
                          canAnalyze |-> freeCount < 1])
  /\ uop' = "limit"
  /\ UNCHANGED <<freeCount, freeMonth, now, lastCheck, recordedMonth, isPremium>>
  /\ UNCHANGED <<engineVars, dbVars, netVars, fnVars, hookVars, iapVars, appVars>>

---------------------------------------------------------------------------
(* IAPService: the premium status.  Dates are whole numbers of the clock;  *)
(* an absent expiryDate is Undefined.  The purchase service either reports *)
(* an active premium entitlement with its expiration date or none.         *)

MaxClock == 3
Dates == 1..(MaxClock + 1)

NotPremium == [isPremium |-> FALSE, expiryDate |-> Undefined]
PremiumUntil(date) == [isPremium |-> TRUE, expiryDate |-> date]
NoEntitlement == [active |-> FALSE]
ActiveUntil(date) == [active |-> TRUE, expirationDate |-> date]
NoStatus == [none |-> TRUE]

IapInit ==
  /\ storedStatus = NotPremium
  /\ entitlement = NoEntitlement
  /\ clock = 0
  /\ premiumRet = NoStatus

IapFrame ==
  UNCHANGED <<engineVars, isPremium, dbVars, usageVars, netVars, fnVars,
              hookVars, usageLimit, appVars>>

\* purchasePremium: the purchase succeeds, the entitlement is active and
\* processPurchase stores it
purchasePremium ==
  /\ \E date \in Dates \cup {Undefined} :
       /\ date = Undefined \/ date > clock
       /\ entitlement' = ActiveUntil(date)
       /\ storedStatus' = PremiumUntil(date)
  /\ UNCHANGED <<clock, premiumRet>>
  /\ IapFrame

\* the subscription ends (expiry, refund, cancellation): the purchase
\* service no longer reports the entitlement
EntitlementEnds ==
  /\ entitlement.active
  /\ entitlement' = NoEntitlement
  /\ UNCHANGED <<storedStatus, clock, premiumRet>>
  /\ IapFrame

\* time passes
ClockTick ==
  /\ clock < MaxClock
  /\ clock' = clock + 1
  /\ UNCHANGED <<storedStatus, entitlement, premiumRet>>
  /\ IapFrame

\* checkPremiumStatus; reachable tells whether Purchases.getCustomerInfo
\* resolves
checkPremiumStatus(reachable) ==
  /\ IF storedStatus.isPremium
     THEN /\ premiumRet' = storedStatus
          /\ UNCHANGED storedStatus
     ELSE IF ~reachable
     THEN /\ premiumRet' = storedStatus
          /\ UNCHANGED storedStatus
     ELSE IF entitlement.active
     THEN /\ storedStatus' = PremiumUntil(entitlement.expirationDate)
          /\ premiumRet' = PremiumUntil(entitlement.expirationDate)
     ELSE /\ storedStatus' = NotPremium
          /\ premiumRet' = NotPremium
  /\ UNCHANGED <<entitlement, clock>>
  /\ IapFrame

CheckPremiumStatus == \E reachable \in BOOLEAN : checkPremiumStatus(reachable)

\* ---- calculateOilinessEnhanced over a sweep of brightness ----
\* the brightness at which calculateOilinessEnhanced changes its formula
SweepTop == 50
Spreads == {0, 30}

\* dominant with the given spread of its channels above the grey level,
\* average grey at that level
SweepDominant(level, spread) == [r |-> level + spread, g |-> level, b |-> level]
SweepAverage(level) == [r |-> level, g |-> level, b |-> level]
SweepArgs == {[level |-> l, spread |-> sp] : l \in 0..SweepTop, sp \in Spreads}

OilinessInit ==
  /\ fn = "none"
  /\ arg \in SweepArgs
  /\ ret = NoReturn

\* calculateOilinessEnhanced(dominant, average), in units of 1/600
CalculateOilinessEnhanced ==
  /\ fn = "none"
  /\ arg \in SweepArgs
  /\ fn' = "calculateOilinessEnhanced"
  /\ ret' = calculateOilinessEnhanced(SweepDominant(arg.level, arg.spread),
                                      SweepAverage(arg.level))
  /\ UNCHANGED arg
  /\ UNCHANGED <<engineVars, isPremium, dbVars, usageVars, netVars, hookVars>>
  /\ UNCHANGED <<usageLimit, iapVars, appVars>>

---------------------------------------------------------------------------
(* The stages of the engine applied one at a time.  An argument names the  *)
(* stage and carries the parameters of its function.                       *)

StageDominants ==
  {Hex(255, 160, 0), Hex(200, 160, 120), Hex(180, 140, 110), Hex(200, 140, 120),
   Hex(255, 255, 255), Hex(0, 0, 0)}
StageAverages ==
  {Hex(255, 0, 0), Hex(232, 213, 183), Hex(160, 82, 45), Hex(255, 255, 255),
   Hex(0, 0, 0)}
StageVibrants ==
  {Hex(220, 197, 160), Hex(205, 133, 63), Hex(255, 255, 255), Hex(0, 0, 0)}
StageColors ==
  {ColorsOf("android", d, a, v) :
     d \in StageDominants, a \in StageAverages, v \in StageVibrants}

StageMetrics ==
  {Metrics(0, 50, 95, 5, 8), Metrics(31, 30, 40, Undefined, 57),
   Metrics(1, 100, 20, 60, 2), Metrics(100, 100, 100, 100, 100),
   Metrics(25, 45, 75, 85, 75)}

\* environmental factors in hundredths, as calculateEnvironmentalQuality
\* returns them: lighting 0.7 to 1.0, temperature 0.9, 1.0 or 1.1, contrast
\* 0.8, 1.0 or 1.2
StageFactors ==
  {[lightingQuality |-> l, colorTemperature |-> t, contrast |-> k] :
     l \in {70, 85, 100}, t \in {90, 100, 110}, k \in {80, 100, 120}}

MaxHistory == 3

\* scores on both sides of the tier thresholds
AdviceMetrics ==
  {Metrics(o, r, o, r, r) : o \in {39, 40, 69, 70}, r \in {29, 30, 59, 60}}
  \cup {Metrics(0, 0, 0, Undefined, Undefined)}

\* the confidence supplied to generateAdviceFromMetrics, Undefined for none:
\* what analyzeRealImageEnhanced and analyzeRealImage hand to the advice:
\* the score of calculateConfidenceScore, or nothing
SuppliedConfidence ==
  {Undefined} \cup
  {calculateConfidenceScore(c, face, calculateEnvironmentalQuality(c)) :
     c \in StageColors, face \in YawAngles}

StageArgs ==
  {[stage |-> "raw", colors |-> c] : c \in StageColors}
  \cup {[stage |-> "correction", metrics |-> m, envFactors |-> e] :
          m \in StageMetrics, e \in StageFactors}
  \cup {[stage |-> "smoothing", metrics |-> m, previousResults |-> h] :
          m \in StageMetrics, h \in SeqsUpTo(StageMetrics, MaxHistory)}
  \cup {[stage |-> "normalization", metrics |-> m, colors |-> c] :
          m \in StageMetrics,
          c \in {ColorsOf("android", d, NoColor, NoColor) : d \in StageDominants}}
  \cup {[stage |-> "advice", metrics |-> m, confidence |-> k, skinType |-> t] :
          m \in AdviceMetrics, k \in SuppliedConfidence,
          t \in {NoSkinType, "light"}}

StageInit ==
  /\ fn = "none"
  /\ arg \in StageArgs
  /\ ret = NoReturn

StageFrame ==
  /\ UNCHANGED arg
  /\ UNCHANGED <<engineVars, isPremium, dbVars, usageVars, netVars, hookVars>>
  /\ UNCHANGED <<usageLimit, iapVars, appVars>>

AnalyzeColorsForSkinMetrics ==
  /\ fn = "none" /\ arg.stage = "raw"
  /\ fn' = "analyzeColorsForSkinMetrics"
  /\ ret' = analyzeColorsForSkinMetrics(arg.colors)
  /\ StageFrame

ApplyEnvironmentalCorrections ==
  /\ fn = "none" /\ arg.stage = "correction"
  /\ fn' = "applyEnvironmentalCorrections"
  /\ ret' = applyEnvironmentalCorrections(arg.metrics, arg.envFactors)
  /\ StageFrame

ApplyTemporalSmoothing ==
  /\ fn = "none" /\ arg.stage = "smoothing"
  /\ fn' = "applyTemporalSmoothing"
  /\ ret' = applyTemporalSmoothing(arg.metrics, arg.previousResults)
  /\ StageFrame

ApplySkinTypeNormalization ==
  /\ fn = "none" /\ arg.stage = "normalization"
  /\ fn' = "applySkinTypeNormalization"
  /\ ret' = applySkinTypeNormalization(arg.metrics, arg.colors)
  /\ StageFrame

\* an absent confidence reaches the function as undefined, which its test
\* 'confidence && confidence < 80' treats like 0
GenerateAdviceFromMetrics ==
  /\ fn = "none" /\ arg.stage = "advice"
  /\ fn' = "generateAdviceFromMetrics"
  /\ ret' = generateAdviceFromMetrics(
               arg.metrics,
               IF arg.confidence = Undefined THEN NoConfidence ELSE arg.confidence,
               arg.skinType)
  /\ StageFrame

---------------------------------------------------------------------------
(* Specifications                                                          *)

IdleEngine ==
  /\ colors = ColorsOf("ios", NoColor, NoColor, NoColor)
  /\ faceData = NoYaw
  /\ previousResults = << >>
  /\ epc = "idle"
  /\ getColorsOk = <<TRUE, TRUE>>
  /\ path = "none"
  /\ result = NoResult

IdleFn ==
  /\ fn = "none"
  /\ arg = 0
  /\ ret = NoReturn

IdleScreen == basicAnalysis = NullRecord /\ premiumReport = "none" /\ reportSaved = {}

IdleIap == usageLimit = NoLimit /\ IapInit /\ RepeatInit /\ IdleScreen

IdleHook == HookInit /\ IdleIap

IdleNet ==
  /\ rpc = "idle"
  /\ rargs = NoArgs
  /\ elapsed = 0
  /\ routcome = "none"
  /\ rresult = NoRoutines
  /\ vresult = "none"
  /\ photo = <<255, 216, 255>>
  /\ outbound = << >>

InitEngine == EngineInit /\ DbInit /\ UsageInit /\ IdleNet /\ IdleFn /\ IdleHook
NextEngine == AnalyzeRealImageEnhanced
SpecEngine == InitEngine /\ [][NextEngine]_vars

InitDatabase == IdleEngine /\ isPremium = FALSE /\ DbInit /\ UsageInit /\ IdleNet /\ IdleFn /\ IdleHook
NextDatabase == saveAnalysis \/ deleteAnalysis \/ clearAllData
SpecDatabase == InitDatabase /\ [][NextDatabase]_vars

InitUsage == IdleEngine /\ isPremium = FALSE /\ DbInit /\ UsageInit /\ IdleNet /\ IdleFn /\ IdleHook
NextUsage == checkCanAnalyze \/ incrementAnalysisCount \/ setPremiumStatus \/ AdvanceMonth
SpecUsage == InitUsage /\ [][NextUsage]_vars

InitNetwork == IdleEngine /\ isPremium = FALSE /\ DbInit /\ UsageInit /\ NetInit /\ IdleFn /\ IdleHook
NextNetwork == StartRoutines \/ Tick \/ FetchEnds \/ TimeoutAbort \/ analyzeWithOpenAI
SpecNetwork == InitNetwork /\ [][NextNetwork]_vars
                 /\ WF_vars(Tick) /\ WF_vars(TimeoutAbort)

InitClassify == IdleEngine /\ isPremium = FALSE /\ DbInit /\ UsageInit /\ IdleNet
                /\ ClassifyInit /\ IdleHook
NextClassify == ClassifySkinType
SpecClassify == InitClassify /\ [][NextClassify]_vars

InitOiliness == IdleEngine /\ isPremium = FALSE /\ DbInit /\ UsageInit /\ IdleNet
                /\ OilinessInit /\ IdleHook
NextOiliness == CalculateOilinessEnhanced
SpecOiliness == InitOiliness /\ [][NextOiliness]_vars

InitHook == IdleEngine /\ isPremium \in BOOLEAN /\ DbInit /\ UsageInit /\ IdleNet
            /\ IdleFn /\ HookInit /\ IdleIap
NextHook == \E p \in Runs : analyzeImage(p)
SpecHook == InitHook /\ [][NextHook]_vars

InitLimit == InitUsage
NextLimit == NextUsage \/ getUsageLimit
SpecLimit == InitLimit /\ [][NextLimit]_vars

InitRepeat == InitUsage
NextRepeat == AnalyzeAndStore
SpecRepeat == InitRepeat /\ [][NextRepeat]_vars

InitReport == IdleEngine /\ isPremium = FALSE /\ ReportInit /\ UsageInit /\ IdleNet
              /\ IdleFn /\ HookInit /\ usageLimit = NoLimit /\ IapInit /\ RepeatInit
NextReport == (\E id \in AnalysisIds : loadAnalysisData(id)) \/ generateReport
SpecReport == InitReport /\ [][NextReport]_vars

InitStages == IdleEngine /\ isPremium = FALSE /\ DbInit /\ UsageInit /\ IdleNet
              /\ StageInit /\ IdleHook
NextStages ==
  \/ AnalyzeColorsForSkinMetrics
  \/ ApplyEnvironmentalCorrections
  \/ ApplyTemporalSmoothing
  \/ ApplySkinTypeNormalization
  \/ GenerateAdviceFromMetrics
SpecStages == InitStages /\ [][NextStages]_vars

InitPremium == InitUsage
NextPremium == purchasePremium \/ EntitlementEnds \/ ClockTick \/ CheckPremiumStatus
SpecPremium == InitPremium /\ [][NextPremium]_vars

---------------------------------------------------------------------------
(* Properties of the metrics engine (SpecEngine)                           *)

MetricFields == {"oiliness", "redness", "texture", "acne", "wrinkles"}
Returned == epc = "done"

\* s is a colour string: six hexadecimal digits, '#' before them or not
IsHexColor(s) ==
  \/ Len(s) = 6 /\ \A i \in 1..6 : s[i] \in 0..15
  \/ Len(s) = 7 /\ s[1] = Hash /\ \A i \in 2..7 : s[i] \in 0..15

DominantSlot(c) == IF c.platform = "ios" THEN c.primary ELSE c.dominant
AverageSlot(c)  == IF c.platform = "ios" THEN c.secondary ELSE c.average
VibrantSlot(c)  == IF c.platform = "ios" THEN c.detail ELSE c.vibrant

\* the three colour samples are present and parse
ValidColors ==
  \A slot \in {DominantSlot(colors), AverageSlot(colors), VibrantSlot(colors)} :
     slot # NoColor /\ IsHexColor(slot)

\* every previous record is a SkinMetrics whose present fields are in 0..100
ValidPrevious ==
  \A i \in 1..Len(previousResults) :
    /\ previousResults[i] # NullRecord
    /\ \A f \in {"oiliness", "redness", "texture"} : previousResults[i][f] \in 0..100
    /\ \A f \in {"acne", "wrinkles"} : previousResults[i][f] \in (0..100) \cup {Undefined}

\* C1: for valid colours and valid previous records, every field of the
\* metrics analyzeRealImageEnhanced returns is an integer in [0,100],
\* the skin-type multiplier stage included.
C1_MetricsInRange ==
  (Returned /\ ValidColors /\ ValidPrevious) =>
     \A f \in MetricFields : result.metrics[f] \in 0..100

\* C11: the confidence calculateConfidenceScore returns is an integer in
\* [0,100] for every combination of colour samples, yaw angle and
\* environmental factors of calculateEnvironmentalQuality.
C11_ConfidenceInRange ==
  (Returned /\ path = "enhanced" /\ ValidColors) =>
     /\ result.confidence =
          calculateConfidenceScore(colors, faceData, result.environmentalFactors)
     /\ result.confidence \in 0..100

\* C12: for dominant #F0E5D0, average #E8D5B7, vibrant #DCC5A0, no history
\* and a user who is not premium, the analysis returns oiliness within
\* [60,80] and redness within [5,25].
C12_BrightOilyFixture ==
  (/\ Returned /\ path \in {"enhanced", "legacy"}
   /\ DominantSlot(colors) = Hex(240, 229, 208)
   /\ AverageSlot(colors) = Hex(232, 213, 183)
   /\ VibrantSlot(colors) = Hex(220, 197, 160)
   /\ previousResults = << >>
   /\ ~isPremium) =>
     /\ result.metrics.oiliness \in 60..80
     /\ result.metrics.redness \in 5..25

\* C13: for each of the three fixtures of testCases, the metrics computed
\* from the fixture's colours pass testAccuracy (at least 70% of the five
\* metrics within the expected ranges).
C13_FixturesAccurate ==
  (Returned /\ path = "legacy") =>
     \A i \in 1..Len(testCases) :
        colors = testCases[i].mockColors =>
           testAccuracy(result.metrics, testCases[i]).isAccurate

\* C15: with an empty list of previous results applyTemporalSmoothing returns
\* its input unchanged in every field: the returned metrics are those of
\* the pipeline without the smoothing stage.
C15_SmoothingPassThrough ==
  (Returned /\ path = "enhanced" /\ previousResults = << >>) =>
     result.metrics =
        applySkinTypeNormalization(
           applyEnvironmentalCorrections(analyzeColorsForSkinMetrics(colors),
                                         calculateEnvironmentalQuality(colors)),
           colors)

C15_Witness ==
  /\ Returned /\ path = "enhanced" /\ previousResults = << >>
  /\ ValidColors
  /\ result.metrics.oiliness > 0

\* C3: for a user who is not premium the returned metrics contain neither
\* acne nor wrinkles.
C3_NoPremiumMetrics ==
  (Returned /\ ~isPremium) =>
     /\ result.metrics.acne = Undefined
     /\ result.metrics.wrinkles = Undefined

\* ---- C4 ----
\* the string s, or whenMissing if it is absent, or whenBad if it does not parse
Supplied(s, whenMissing, whenBad) ==
  IF s = NoColor THEN whenMissing
  ELSE IF ~IsHexColor(s) THEN whenBad ELSE s

NeutralDefault == Hex(180, 140, 110)

\* the result of the same call on the colours c
ResultOn(c) ==
  IF path = "enhanced" THEN EnhancedResult(c, faceData, previousResults)
  ELSE IF path = "legacy" THEN LegacyResult(c)
  ELSE DefaultResult

SomeSlotUnparseable ==
  \E s \in {DominantSlot(colors), AverageSlot(colors), VibrantSlot(colors)} :
     s # NoColor /\ ~IsHexColor(s)

EnhancedFailed == ~getColorsOk[1] \/ StageThrows(previousResults)

\* C5: analyzeRealImageEnhanced never rejects: when its colour extraction or
\* a stage fails it returns what analyzeRealImage returns, and when colour
\* extraction fails there too it returns the fixed default metrics
\* (45, 25, 35, 15, 20) with the fixed advice.
C5_AlwaysAResult ==
  Returned =>
    /\ result # RejectedResult
    /\ result # NoResult
    /\ \A f \in MetricFields : result.metrics[f] \in Nat
    /\ (EnhancedFailed /\ getColorsOk[2]) => result = LegacyResult(colors)
    /\ (EnhancedFailed /\ ~getColorsOk[2]) =>
          /\ result.metrics = Metrics(45, 25, 35, 15, 20)
          /\ \A f \in MetricFields : result.advice[f] = FixedAdvice(f)

C5_Witness ==
  /\ Returned
  /\ ~getColorsOk[1] /\ ~getColorsOk[2]
  /\ result.metrics = Metrics(45, 25, 35, 15, 20)

---------------------------------------------------------------------------
(* Properties of the analyses table (SpecDatabase)                         *)

\* the table after INSERT OR REPLACE of the record (id, timestamp)
PresentAfterInsert(rows, id, timestamp) ==
  {r \in rows : r.id # id} \cup {[id |-> id, timestamp |-> timestamp]}

SaveKeepsLatest ==
  lastOp'.op = "save" =>
    LET present == PresentAfterInsert(analyses, lastOp'.id, lastOp'.timestamp)
    IN  /\ analyses' \subseteq present
        /\ Cardinality(analyses') = Min(3, Cardinality(present))
        /\ \A k \in analyses' : \A d \in present \ analyses' :
              k.timestamp >= d.timestamp

\* C6: after any sequence of saveAnalysis, deleteAnalysis and clearAllData
\* the table holds at most 3 records, and after each saveAnalysis the records
\* kept are those with the 3 greatest timestamps among the records present
\* after the insert.
C6_KeepsLastThree ==
  /\ [](Cardinality(analyses) <= 3)
  /\ [][SaveKeepsLatest]_vars

\* a save whose own record was the oldest of four and was deleted again
C6_Witness ==
  /\ lastOp.op = "save"
  /\ Cardinality(analyses) = 3
  /\ \A r \in analyses : r.id # lastOp.id /\ r.timestamp > lastOp.timestamp

---------------------------------------------------------------------------
(* Properties of the usage limit (SpecUsage)                               *)

PremiumStep ==
  isPremium =>
    /\ (uop' = "check" => lastCheck' = TRUE)
    /\ (uop' = "increment" => freeCount' = freeCount /\ freeMonth' = freeMonth)

\* C8: while the stored premium status is true, checkCanAnalyze returns true
\* whatever the free-analysis count and month are, and incrementAnalysisCount
\* leaves the free-analysis count and month unchanged.
C8_PremiumUnlimited == [][PremiumStep]_vars

\* a premium check that passes although this month's free analysis is used
C8_Witness ==
  /\ isPremium /\ uop = "check" /\ lastCheck = TRUE
  /\ freeCount >= 1 /\ freeMonth = now

---------------------------------------------------------------------------
(* Properties of the outbound requests (SpecNetwork)                       *)

FailureOutcomes == {"httpError", "networkError", "abort", "unparseable", "malformed"}

RoutinesReturned ==
  rpc = "done" =>
    /\ rresult # Rejected
    /\ rresult # NoRoutines
    /\ elapsed <= 15
    /\ routcome \in FailureOutcomes =>
         rresult = getFallbackRoutines(rargs.metrics, rargs.skinType, rargs.season)

\* C9: generateEnhancedRoutines always completes with a response: on an HTTP
\* error status, a network failure, the 15-second abort or a reply that cannot
\* be parsed it returns getFallbackRoutines of the same metrics, skin type and
\* season; it never rejects and a pending call always ends.
C9_AlwaysCompletes ==
  /\ []RoutinesReturned
  /\ (rpc = "fetching") ~> (rpc = "done")

\* the call ended by the abort after 15 seconds and gave the fallback
C9_Witness ==
  /\ rpc = "done"
  /\ routcome = "abort"
  /\ elapsed = 15
  /\ rresult.source = "fallback"

\* C10: no operation transmits image content to an external service: every
\* part of every outbound request is text, none is the photo or an encoding
\* of it.
C10_OnlyTextLeaves ==
  \A i \in 1..Len(outbound) :
    \A j \in 1..Len(outbound[i].content) :
      LET part == outbound[i].content[j]
      IN  /\ part.type = "text"
          /\ Len(part.url) = 4 => Base64Decode(part.url) \notin Photos

---------------------------------------------------------------------------
(* Properties of single functions                                          *)

SkinTypes == {"very-light", "light", "medium", "tan", "dark"}

\* C14: classifySkinType compares strictly: ITA exactly 55, 41, 28 and 10
\* give light, medium, tan and dark, a value just above each of them gives
\* the next lighter class, and every ITA value gives exactly one of the five
\* classes.
C14_StrictThresholds ==
  fn = "classifySkinType" =>
    /\ ret \in SkinTypes
    /\ (arg = 2 * 55 => ret = "light")      /\ (arg = 2 * 55 + 1 => ret = "very-light")
    /\ (arg = 2 * 41 => ret = "medium")     /\ (arg = 2 * 41 + 1 => ret = "light")
    /\ (arg = 2 * 28 => ret = "tan")        /\ (arg = 2 * 28 + 1 => ret = "medium")
    /\ (arg = 2 * 10 => ret = "dark")       /\ (arg = 2 * 10 + 1 => ret = "tan")

C14_Witness ==
  /\ fn = "classifySkinType"
  /\ arg = 2 * 55
  /\ ret = "light"

\* the brightness (dominantBrightness + averageBrightness) / 2 of a sweep
\* argument, in sixths
SweepBrightness6(a) == 6 * a.level + a.spread

\* C16: with the channel spread of dominant held fixed, raw oiliness is
\* non-decreasing as the brightness of dominant and average sweeps from 0 to
\* 50, both ends included: the value at one level is at most the value at
\* the next level.
C16_OilinessNonDecreasing ==
  (/\ fn = "calculateOilinessEnhanced"
   /\ SweepBrightness6(arg) + 6 <= 6 * 50) =>
     ret <= calculateOilinessEnhanced(SweepDominant(arg.level + 1, arg.spread),
                                      SweepAverage(arg.level + 1))

---------------------------------------------------------------------------
(* Properties of the hook (SpecHook)                                       *)

\* C17: every call of analyzeImage that returns (with a result, with null
\* after the monthly-limit check or the no-face check, or after an
\* exception) leaves isAnalyzing false.
C17_ReturnClearsAnalyzing ==
  \A p \in Runs : hpc[p] = "returned" => leftAnalyzing[p] = FALSE

\* C18: when two analyses of a user who is not premium overlap, at most one
\* of them is saved and counted within the month.
C18_OverlapCountsOnce ==
  ~isPremium =>
     /\ Cardinality(savedBy) <= 1
     /\ Cardinality(countedBy) <= 1

---------------------------------------------------------------------------
(* Properties of the premium status (SpecPremium)                          *)

\* the stored expiryDate is in the past
Expired(status) == status.expiryDate # Undefined /\ status.expiryDate < clock

\* C19: checkPremiumStatus never returns isPremium = true when the stored
\* expiryDate is in the past or when the purchase service no longer reports
\* the entitlement.
C19_NoStalePremium ==
  [][(CheckPremiumStatus /\ (Expired(storedStatus) \/ ~entitlement.active))
       => ~premiumRet'.isPremium]_vars

---------------------------------------------------------------------------
(* Properties of the usage information (SpecLimit)                         *)

\* C20: for a user who is not premium, the canAnalyze that getUsageLimit
\* returns equals what checkCanAnalyze returns in the same storage state
\* and calendar month, the first call of a new month included.
C20_LimitAgreesWithCheck ==
  [][(getUsageLimit /\ ~isPremium)
       => usageLimit'.canAnalyze = checkCanAnalyzeReturns]_vars

---------------------------------------------------------------------------
(* Order of save and count in analyzeImage (SpecHook)                      *)

\* the analyses counted for the current month
MonthlyCount == IF freeMonth = now THEN freeCount ELSE 0

\* a step of call p that changes the monthly count is the increment of a
\* call whose record is saved
CountsAfterSave ==
  \A p \in Runs :
    (analyzeImage(p) /\ MonthlyCount' # MonthlyCount) =>
       /\ hpc[p] = "counting"
       /\ p \in savedBy
       /\ MonthlyCount' = MonthlyCount + 1

\* C21: the usage count is incremented only after the record has been
\* saved: a call that stops at the limit check, at face detection or at an
\* exception before or during saveAnalysis leaves the monthly count
\* unchanged, and progress 100 is reported only by a call that has saved
\* and counted.
C21_CountOnlyAfterSave ==
  /\ [][CountsAfterSave]_vars
  /\ [](progress = 100 =>
          \E p \in Runs : hret[p] = "result" /\ p \in savedBy
                            /\ (isPremium \/ p \in countedBy))

C21_Witness ==
  \E p, q \in Runs :
    /\ hret[p] = "result" /\ p \in savedBy /\ p \in countedBy
    /\ hret[q] = "null" /\ q \notin countedBy
    /\ progress = 100 /\ ~isPremium /\ MonthlyCount = 1

---------------------------------------------------------------------------
(* Properties of repeated analyses (SpecRepeat)                            *)

\* C22: when analyses are repeated and each uses the two most recently
\* stored metrics as its history, every stored metric stays within [0,100]
\* after any number of analyses.
C22_StoredInRange ==
  \A i \in 1..Len(stored) : \A f \in MetricFields : stored[i][f] \in 0..100

---------------------------------------------------------------------------
(* Properties of the premium report screen (SpecReport)                    *)

\* C23: after a premium report has been generated for a stored analysis
\* and the record re-saved, a later getAnalysisById for that id returns the
\* record with the report attached: the screen opened again shows the
\* report.
C23_ReportSurvivesReopen ==
  [][\A id \in AnalysisIds :
       (/\ loadAnalysisData(id)
        /\ id \in reportSaved
        /\ \E r \in analyses : r.id = id)
          => /\ HasReport(getAnalysisById(id))
             /\ premiumReport' = "report"]_vars

---------------------------------------------------------------------------
(* Properties of the stages (SpecStages)                                   *)

\* C24: analyzeColorsForSkinMetrics returns integers with oiliness in
\* [15,85], redness in [8,85], texture in [10,80], acne in [5,60] and
\* wrinkles in [8,75] for all colour samples with channels in 0-255,
\* all-black and all-white samples included.
C24_RawSubRanges ==
  fn = "analyzeColorsForSkinMetrics" =>
    /\ ret.oiliness \in 15..85
    /\ ret.redness \in 8..85
    /\ ret.texture \in 10..80
    /\ ret.acne \in 5..60
    /\ ret.wrinkles \in 8..75

C24_Witness ==
  /\ fn = "analyzeColorsForSkinMetrics"
  /\ arg.colors = ColorsOf("android", Hex(0, 0, 0), Hex(255, 255, 255), Hex(0, 0, 0))
  /\ ret.acne = 60
  /\ ret.wrinkles = 8

\* C25: applyEnvironmentalCorrections scales oiliness and acne by
\* lightingQuality, redness by colorTemperature, texture and wrinkles by
\* contrast, and every metric it returns is an integer in [5,95].
C25_CorrectionsByFactor ==
  fn = "applyEnvironmentalCorrections" =>
    LET m == arg.metrics
        e == arg.envFactors
    IN  /\ \A f \in MetricFields : ret[f] \in 5..95
        /\ ret.oiliness = CorrectOne(m.oiliness, e.lightingQuality)
        /\ ret.acne     = CorrectOne(OrZero(m.acne), e.lightingQuality)
        /\ ret.redness  = CorrectOne(m.redness, e.colorTemperature)
        /\ ret.texture  = CorrectOne(m.texture, e.contrast)
        /\ ret.wrinkles = CorrectOne(OrZero(m.wrinkles), e.contrast)

C25_Witness ==
  /\ fn = "applyEnvironmentalCorrections"
  /\ arg.metrics = Metrics(25, 45, 75, 85, 75)
  /\ arg.envFactors = [lightingQuality |-> 70, colorTemperature |-> 110,
                       contrast |-> 120]
  /\ ret = Metrics(18, 50, 90, 59, 90)

\* Math.round of the double current * 0.5 + first * 0.3 + second * 0.2
WeightedRound(current, first, second) ==
  IF <<current, first, second>> \in SmoothTieDown
  THEN (5 * current + 3 * first + 2 * second) \div 10
  ELSE MathRound(5 * current + 3 * first + 2 * second, 10)

\* C26: with at least one previous record, applyTemporalSmoothing returns
\* for each metric round(0.5 x current + 0.3 x first previous + 0.2 x second
\* previous); an absent second record contributes nothing, the sum is not
\* renormalised, and records beyond the second have no influence.
C26_WeightedSum ==
  (fn = "applyTemporalSmoothing" /\ Len(arg.previousResults) >= 1) =>
    LET h == arg.previousResults
    IN  \A f \in MetricFields :
          ret[f] = WeightedRound(OrZero(arg.metrics[f]), OrZero(h[1][f]),
                                 IF Len(h) >= 2 THEN OrZero(h[2][f]) ELSE 0)

C26_Witness ==
  /\ fn = "applyTemporalSmoothing"
  /\ arg.metrics = Metrics(100, 100, 100, 100, 100)
  /\ arg.previousResults = <<Metrics(0, 50, 95, 5, 8), Metrics(1, 100, 20, 60, 2),
                             Metrics(100, 100, 100, 100, 100)>>
  /\ ret = Metrics(50, 85, 83, 64, 53)

\* the factors of oiliness and redness, in hundredths, by skin type
ClassFactors(skinType) ==
  CASE skinType = "very-light" -> <<85, 115>>
    [] skinType = "light"      -> <<95, 105>>
    [] skinType = "medium"     -> <<100, 100>>
    [] skinType = "tan"        -> <<105, 85>>
    [] skinType = "dark"       -> <<110, 70>>

\* C27: applySkinTypeNormalization returns texture, acne and wrinkles
\* unchanged and oiliness and redness multiplied by the factors of the
\* skin type (very-light 0.85/1.15, light 0.95/1.05, medium 1.00/1.00, tan
\* 1.05/0.85, dark 1.10/0.70) and rounded.
C27_OnlyOilinessAndRedness ==
  fn = "applySkinTypeNormalization" =>
    LET factors == ClassFactors(determineSkinType(arg.colors))
    IN  /\ ret.texture = arg.metrics.texture
        /\ ret.acne = arg.metrics.acne
        /\ ret.wrinkles = arg.metrics.wrinkles
        /\ ret.oiliness = ScaleRound(arg.metrics.oiliness, factors[1])
        /\ ret.redness = ScaleRound(arg.metrics.redness, factors[2])

C27_Witness ==
  /\ fn = "applySkinTypeNormalization"
  /\ determineSkinType(arg.colors) = "tan"
  /\ arg.metrics = Metrics(31, 30, 40, Undefined, 57)
  /\ ret = Metrics(33, 26, 40, Undefined, 57)

\* the tier the claim gives a score of a metric
ExpectedTier(metric, score) ==
  IF metric \in {"oiliness", "texture"}
  THEN (IF score >= 70 THEN "high" ELSE IF score >= 40 THEN "moderate" ELSE "low")
  ELSE (IF score >= 60 THEN "high" ELSE IF score >= 30 THEN "moderate" ELSE "low")

\* C29: generateAdviceFromMetrics picks for each metric the tier of its
\* score alone (high at 70 or more and moderate at 40 or more for oiliness
\* and texture; high at 60 or more and moderate at 30 or more for redness,
\* acne and wrinkles; low otherwise), and every advice string carries the
\* low-confidence caveat exactly when the supplied confidence is below 80.
C29_TiersAndCaveat ==
  fn = "generateAdviceFromMetrics" =>
    \A f \in MetricFields :
      /\ ret[f].metric = f
      /\ ret[f].tier = ExpectedTier(f, OrZero(arg.metrics[f]))
      /\ (ret[f].prefix # "") <=>
            (arg.confidence # Undefined /\ arg.confidence < 80)

C29_Witness ==
  /\ fn = "generateAdviceFromMetrics"
  /\ arg.confidence # Undefined /\ arg.confidence < 80
  /\ arg.metrics = Metrics(69, 60, 69, 60, 60)
  /\ ret.oiliness.tier = "moderate" /\ ret.redness.tier = "high"
  /\ ret.texture.tier = "moderate" /\ ret.acne.tier = "high"
  /\ ret.wrinkles.tier = "high"
  /\ \A f \in MetricFields : ret[f].prefix # ""

---------------------------------------------------------------------------
(* What the history can influence (SpecEngine)                             *)

\* C28: confidence, skinType and environmentalFactors depend only on the
\* colour samples and the yaw angle: whatever the history of previous
\* results, an analysis returns the values determined by the colours and
\* the angle alone.
C28_HistoryIndependent ==
  (Returned /\ path = "enhanced") =>
    LET envFactors == calculateEnvironmentalQuality(colors)
    IN  /\ result.environmentalFactors = envFactors
        /\ result.skinType = determineSkinType(colors)
        /\ result.confidence = calculateConfidenceScore(colors, faceData, envFactors)

C28_Witness ==
  /\ Returned /\ path = "enhanced"
  /\ Len(previousResults) = 2 /\ ValidPrevious
  /\ previousResults[1] = Metrics(100, 100, 100, 100, 100)
  /\ colors = ColorsOf("ios", Hex(240, 229, 208), Hex(232, 213, 183),
                       Hex(220, 197, 160))
  /\ result.confidence = 89
  /\ result.skinType = "very-light"

=============================================================================
